---------------------------- MODULE Spec2Model ----------------------------
(***************************************************************************)
(* A model of tuxun_agent: the geolocation reasoning agent                 *)
(* (agents/geolocation_reasoning_agent.py), the validation module          *)
(* (modules/validation_module.py) and the geolocation store                *)
(* (database/geolocation_db.py).                                           *)
(*                                                                         *)
(* Conventions.                                                            *)
(*  - A Python dict is a TLA+ function whose DOMAIN is the set of keys, so *)
(*    `k in d` is `k \in DOMAIN d` and a missing key is a missing key.     *)
(*  - A Python float that is a confidence or a score is an exact rational  *)
(*    [n, d] in lowest terms with d > 0 (operators Rat, RMul, RAdd, ...).  *)
(*  - A latitude or longitude is an integer number of 1/1110 degree, about *)
(*    100 m of meridian; Deg(x) is x degrees in that unit.                 *)
(*  - An optional value is a tuple: None is <<>>, Some(v) is <<v>>.         *)
(***************************************************************************)
EXTENDS Integers, Sequences, FiniteSets, TLC

\* ---- GeolocationReasoningAgent.execute, one invocation
VARIABLES
    a_pc,         \* where the invocation of execute is: IDLE, LLM_CALL, DONE
    a_task,       \* the task execute was given
    a_reply,      \* what the LLM call gave, None before it returns
    a_result,     \* what execute returned, None before it returns
    a_path,       \* the stages the invocation went through
    a_llm_calls   \* the number of requests.post calls made

\* ---- ValidationModule and the prediction object its caller holds
VARIABLES
    v_prediction,   \* the caller's prediction object, None before it is made
    v_before,       \* the prediction object as it was when the last call began
    v_op,           \* the last call: "none", "new", "validate", "cross_validate",
                    \* "adjust", "is_outlier"
    v_arg,          \* the other argument of the last call
    v_ret,          \* what the last call returned
    v_calls,        \* the calls made on the prediction object
    v_threshold     \* ValidationModule.confidence_threshold

\* ---- GeolocationDB: the SQLite file, the index file and one open handle
VARIABLES
    s_locations,   \* the committed rows of table locations, in insertion order
    s_features,    \* the committed rows of table image_features, in insertion order
    s_sequence,    \* sqlite_sequence: the last id given to a row of each table
    s_index,       \* self.index: the vectors of the in-memory index, by ordinal
    s_file,        \* the index file: None if absent, else the vectors it holds
    s_op,          \* the last call on the store
    s_arg,         \* its arguments
    s_ret          \* its outcome: <<"ok", value>> or <<"raised", where>>

\* ---- the /geolocate endpoint: the requests of one event loop
VARIABLES
    h_allowed,     \* config.ALLOWED_IMAGE_FORMATS
    h_pc,          \* per request: NEW, READ (suspended at line 37), LLM_CALL, DONE
    h_upload,      \* per request: the upload it came with, None before it comes
    h_running,     \* the request whose handler holds the event loop's thread, 0 if none
    h_path,        \* per request: image_path, None until line 44 sets it
    h_files,       \* the files of the upload folder
    h_uuid,        \* the uuid4 values drawn so far
    h_response,    \* per request: the response sent, None if none
    h_caller       \* per request: "waiting", or where the request was when its
                   \* caller gave up: "left_at_READ", "left_at_LLM_CALL"

agent_vars == <<a_pc, a_task, a_reply, a_result, a_path, a_llm_calls>>
validation_vars == <<v_prediction, v_before, v_op, v_arg, v_ret, v_calls, v_threshold>>
store_vars == <<s_locations, s_features, s_sequence, s_index, s_file, s_op, s_arg, s_ret>>
api_vars ==
    <<h_allowed, h_pc, h_upload, h_running, h_path, h_files, h_uuid, h_response, h_caller>>
vars == <<agent_vars, validation_vars, store_vars, api_vars>>

None == <<>>
Some(v) == <<v>>
Val(o) == o[1]

(***************************************************************************)
(* Exact rational arithmetic standing for Python float arithmetic.         *)
(***************************************************************************)
Abs(x) == IF x < 0 THEN -x ELSE x

RECURSIVE GCD(_, _)
GCD(a, b) == IF b = 0 THEN a ELSE GCD(b, a % b)

Rat(n, d) ==
    LET g == GCD(Abs(n), d)
    IN  [n |-> n \div g, d |-> d \div g]

RInt(i) == [n |-> i, d |-> 1]

\* x * y, reduced before the products are taken
RMul(x, y) ==
    LET g1 == GCD(Abs(x.n), y.d)
        g2 == GCD(Abs(y.n), x.d)
    IN  [n |-> (x.n \div g1) * (y.n \div g2), d |-> (x.d \div g2) * (y.d \div g1)]

\* x + y, over the least common denominator
RAdd(x, y) ==
    LET g == GCD(x.d, y.d)
    IN  Rat(x.n * (y.d \div g) + y.n * (x.d \div g), (x.d \div g) * y.d)

\* x < y, by the integer parts and then the fractional parts of x and y
RECURSIVE RLt(_, _)
RLt(x, y) ==
    LET qx == x.n \div x.d
        qy == y.n \div y.d
        rx == x.n % x.d
        ry == y.n % y.d
    IN  IF qx # qy THEN qx < qy
        ELSE IF ry = 0 THEN FALSE
        ELSE IF rx = 0 THEN TRUE
        ELSE RLt([n |-> y.d, d |-> ry], [n |-> x.d, d |-> rx])

RLe(x, y) == ~RLt(y, x)

\* Python's min(a, b) and max(a, b): the first argument wins a tie
RMin(x, y) == IF RLt(y, x) THEN y ELSE x
RMax(x, y) == IF RLt(x, y) THEN y ELSE x

\* a coordinate is a whole number of 1/1110 degree, about 100 m of meridian
Deg(x) == 1110 * x

\* a Python dict literal with one more key: d[k] = v
Put(d, k, v) == [x \in DOMAIN d \cup {k} |-> IF x = k THEN v ELSE d[x]]

(***************************************************************************)
(* GeolocationReasoningAgent                                               *)
(***************************************************************************)

\* ---- bounds of the agent model
\* longest LLM message content, in tokens
MaxRespLen == 4

\* the coordinates the image metadata may carry
ExifLats == {Deg(48), Deg(-33)}
ExifLons == {Deg(2)}

\* task['exif_data']: None, {}, or a dict with some of the two keys
ExifDicts ==
    {<<>>}
    \cup {[k \in {"latitude"} |-> la] : la \in ExifLats}
    \cup {[k \in {"longitude"} |-> lo] : lo \in ExifLons}
    \cup {[latitude |-> la, longitude |-> lo] : la \in ExifLats, lo \in ExifLons}

Tasks == {[exif_data |-> e] : e \in {None} \cup {Some(d) : d \in ExifDicts}}

\* Python truthiness of task.get('exif_data')
Truthy(e) == e # None /\ DOMAIN Val(e) # {}

\* ---- the LLM's message content, as a sequence of tokens:
\*   "F"   a ``` fence (with or without the json tag)
\*   "{" "}" "[" "]"  braces and brackets
\*   "pk"  the key "predicted_location":      "ak"  the key "alternative_locations":
\*   "lm"  the members of a location: "latitude": .., "longitude": .., ...
\*   "rm"  the member "reasoning": "..."
\*   "T"   prose holding no brace and no fence (not JSON by itself)
\*   "N"   a JSON value that is no object (a number)
\* A content is made of at most MaxRespLen segments; the members the prompt
\* asks for are whole segments, with the braces their values hold.
Segment(g) ==
    CASE g = "P" -> <<"pk", "{", "lm", "}">>
      [] g = "A" -> <<"ak", "[", "{", "lm", "}", "]">>
      [] g = "R" -> <<"rm">>
      [] OTHER -> <<g>>

Segments == {"F", "{", "}", "P", "R", "A", "T", "N"}

RECURSIVE SeqsUpTo(_)
SeqsUpTo(n) ==
    IF n = 0 THEN {<<>>}
    ELSE LET S == SeqsUpTo(n - 1)
         IN  S \cup {s \o Segment(g) : s \in S, g \in Segments}

Contents == SeqsUpTo(MaxRespLen)

\* what the LLM says in each member it supplies
LLMLocation ==
    [latitude |-> Deg(48), longitude |-> Deg(2), accuracy |-> "medium",
     confidence |-> Rat(17, 20)]
LLMReasoning == "reasoning of the model"
LLMAlternatives == << LLMLocation >>

\* ---- json.loads on a token sequence: kind "object" with the dict, kind
\* "number" (a value that is no object), or kind "JSONDecodeError".
\* MemberAt(s, i): the member starting at token i, as <<dict, next index>>,
\* or None when no member starts there.
MemberAt(s, i) ==
    IF i > Len(s) THEN None
    ELSE IF s[i] = "rm" THEN Some(<<[reasoning |-> LLMReasoning], i + 1>>)
    ELSE IF s[i] = "lm" THEN Some(<<LLMLocation, i + 1>>)
    ELSE IF s[i] = "pk" /\ i + 3 <= Len(s) /\ SubSeq(s, i + 1, i + 3) = <<"{", "lm", "}">>
         THEN Some(<<[predicted_location |-> LLMLocation], i + 4>>)
    ELSE IF s[i] = "ak" /\ i + 5 <= Len(s)
               /\ SubSeq(s, i + 1, i + 5) = <<"[", "{", "lm", "}", "]">>
         THEN Some(<<[alternative_locations |-> LLMAlternatives], i + 6>>)
    ELSE None

\* d1 updated with d2, as a later member of a JSON object replaces an earlier one
Update(d1, d2) ==
    [k \in DOMAIN d1 \cup DOMAIN d2 |-> IF k \in DOMAIN d2 THEN d2[k] ELSE d1[k]]

\* the members from token i up to the closing brace that ends s
RECURSIVE ObjectFrom(_, _, _)
ObjectFrom(s, i, acc) ==
    IF i = Len(s) /\ s[i] = "}" THEN [kind |-> "object", value |-> acc]
    ELSE LET m == MemberAt(s, i)
         IN  IF m = None THEN [kind |-> "JSONDecodeError", value |-> <<>>]
             ELSE ObjectFrom(s, Val(m)[2], Update(acc, Val(m)[1]))

JsonLoads(s) ==
    IF s = <<"N">> THEN [kind |-> "number", value |-> <<>>]
    ELSE IF Len(s) >= 2 /\ s[1] = "{" THEN ObjectFrom(s, 2, <<>>)
    ELSE [kind |-> "JSONDecodeError", value |-> <<>>]

\* ---- re.search(r'```(?:json)?\s*({.*?})\s*```', response, re.DOTALL):
\* the leftmost fence directly followed by "{", then the nearest "}" that
\* is directly followed by a fence; the pair <<first, last>> of group 1
FenceMatches(s) ==
    {m \in (1..Len(s)) \X (1..Len(s)) :
        /\ m[1] >= 2 /\ m[1] < m[2] /\ m[2] < Len(s)
        /\ s[m[1] - 1] = "F" /\ s[m[1]] = "{"
        /\ s[m[2]] = "}" /\ s[m[2] + 1] = "F"}

FenceMatch(s) ==
    LET M == FenceMatches(s)
    IN  IF M = {} THEN None
        ELSE LET lo == CHOOSE a \in {m[1] : m \in M} : \A m \in M : a <= m[1]
                 H == {m[2] : m \in {x \in M : x[1] = lo}}
                 hi == CHOOSE a \in H : \A b \in H : a <= b
             IN  Some(<<lo, hi>>)

\* response.find('{') and response.rfind('}'), 1-based, 0 for "not found"
Find(s, t) ==
    IF \E i \in 1..Len(s) : s[i] = t
    THEN CHOOSE i \in 1..Len(s) : s[i] = t /\ \A j \in 1..(i - 1) : s[j] # t
    ELSE 0
RFind(s, t) ==
    IF \E i \in 1..Len(s) : s[i] = t
    THEN CHOOSE i \in 1..Len(s) : s[i] = t /\ \A j \in (i + 1)..Len(s) : s[j] # t
    ELSE 0

\* lines 137-147: the text handed to json.loads
ExtractJson(s) ==
    LET fm == FenceMatch(s)
        json_start == Find(s, "{")
        json_end == RFind(s, "}")
    IN  IF fm # None
        THEN SubSeq(s, Val(fm)[1], Val(fm)[2])
        ELSE IF json_start # 0 /\ json_end # 0
             THEN SubSeq(s, json_start, json_end)
             ELSE s

\* lines 173-184
get_fallback_prediction ==
    [predicted_location |->
        [latitude |-> 0, longitude |-> 0, accuracy |-> "low", confidence |-> Rat(1, 10)],
     reasoning |-> "Unable to determine location from available data",
     alternative_locations |-> <<>>]

\* lines 153-159, 161-162, 164-165: the value given to each missing key
DefaultLocation ==
    [latitude |-> 0, longitude |-> 0, accuracy |-> "low", confidence |-> Rat(1, 10)]
DefaultReasoning == "Location prediction based on image features"
DefaultAlternatives == <<>>

FillMissing(d, k, v) == IF k \notin DOMAIN d THEN Put(d, k, v) ELSE d

\* a variant of lines 152-167 that gives up the whole object when a key is missing
ValidateStructure_WholeObject(result) ==
    IF {"predicted_location", "reasoning", "alternative_locations"} \subseteq DOMAIN result
    THEN result
    ELSE [predicted_location |-> DefaultLocation,
          reasoning |-> DefaultReasoning,
          alternative_locations |-> DefaultAlternatives]

\* lines 152-167, on a dict
ValidateStructure(result) ==
    FillMissing(
        FillMissing(
            FillMissing(result, "predicted_location", DefaultLocation),
            "reasoning", DefaultReasoning),
        "alternative_locations", DefaultAlternatives)

\* does the try block of parse_llm_response raise? re.search raises TypeError
\* on None, json.loads raises JSONDecodeError, and the membership test or
\* the item assignment raises TypeError on a value that is no dict
ParseRaises(content) ==
    \/ content = None
    \/ JsonLoads(ExtractJson(Val(content))).kind # "object"

\* lines 134-171
parse_llm_response(content) ==
    IF content = None
    THEN get_fallback_prediction
    ELSE LET result == JsonLoads(ExtractJson(Val(content)))
         IN  IF result.kind # "object"
             THEN get_fallback_prediction
             ELSE ValidateStructure(result.value)

\* ---- what requests.post and response.json() give
\*   kind "raise": requests.post raises (connection error, timeout, ...)
\*   kind "response": a response with a status code; for 200 the envelope is
\*     "bad_json" (response.json() raises), "no_choices" (result['choices'][0]
\*     ['message']['content'] raises KeyError or IndexError) or "ok"
Replies ==
    {[kind |-> "raise", status |-> 0, envelope |-> "none", content |-> None]}
    \cup {[kind |-> "response", status |-> st, envelope |-> "none", content |-> None] :
             st \in {429, 500}}
    \cup {[kind |-> "response", status |-> 200, envelope |-> e, content |-> None] :
             e \in {"bad_json", "no_choices"}}
    \cup {[kind |-> "response", status |-> 200, envelope |-> "ok", content |-> c] :
             c \in {None} \cup {Some(x) : x \in Contents}}

\* lines 49-91: does analyze_visual_context reach parse_llm_response
ReachesParse(reply) ==
    reply.kind = "response" /\ reply.status = 200 /\ reply.envelope = "ok"

\* a variant of lines 44-91 without the except clause of lines 89-91
analyze_visual_context_NoExcept(reply) ==
    IF ReachesParse(reply)
    THEN parse_llm_response(reply.content)
    ELSE IF reply.kind = "response" /\ reply.status = 200
         THEN [raised |-> "Exception"]
         ELSE get_fallback_prediction

\* lines 44-91, from the return of requests.post on
analyze_visual_context(reply) ==
    IF ReachesParse(reply)
    THEN parse_llm_response(reply.content)
    ELSE get_fallback_prediction

\* line 24
HasMetadataCoordinate(exif_data) ==
    /\ Truthy(exif_data)
    /\ "latitude" \in DOMAIN Val(exif_data)
    /\ "longitude" \in DOMAIN Val(exif_data)

\* a variant of lines 25-34 with the two coordinates exchanged
MetadataPrediction_Swapped(exif_data) ==
    [predicted_location |->
        [latitude |-> exif_data["longitude"], longitude |-> exif_data["latitude"],
         accuracy |-> "high", confidence |-> Rat(19, 20)],
     reasoning |-> "Location determined from EXIF GPS data",
     alternative_locations |-> <<>>]

\* lines 25-34
MetadataPrediction(exif_data) ==
    [predicted_location |->
        [latitude |-> exif_data["latitude"], longitude |-> exif_data["longitude"],
         accuracy |-> "high", confidence |-> Rat(19, 20)],
     reasoning |-> "Location determined from EXIF GPS data",
     alternative_locations |-> <<>>]

\* execute, lines 17-34: the metadata short-circuit
ExecuteMetadataHit(task) ==
    /\ a_pc = "IDLE"
    /\ HasMetadataCoordinate(task.exif_data)
    /\ a_task' = Some(task)
    /\ a_result' = Some(MetadataPrediction(Val(task.exif_data)))
    /\ a_path' = <<"START", "METADATA_HIT", "DONE">>
    /\ a_pc' = "DONE"
    /\ UNCHANGED <<a_reply, a_llm_calls>>
    /\ UNCHANGED <<validation_vars, store_vars, api_vars>>

\* execute, lines 17-24 and 36-40, analyze_visual_context up to requests.post
ExecuteLLMCall(task) ==
    /\ a_pc = "IDLE"
    /\ ~HasMetadataCoordinate(task.exif_data)
    /\ a_task' = Some(task)
    /\ a_llm_calls' = a_llm_calls + 1
    /\ a_path' = <<"START", "LLM_CALL">>
    /\ a_pc' = "LLM_CALL"
    /\ UNCHANGED <<a_reply, a_result>>
    /\ UNCHANGED <<validation_vars, store_vars, api_vars>>

\* a variant of LLMReturn in which a failed call is made once more
LLMReturn_Retried(reply) ==
    /\ a_pc = "LLM_CALL"
    /\ a_reply' = Some(reply)
    /\ IF (~ReachesParse(reply) \/ ParseRaises(reply.content)) /\ a_llm_calls < 2
       THEN /\ a_llm_calls' = a_llm_calls + 1
            /\ UNCHANGED <<a_result, a_path, a_pc>>
       ELSE /\ a_result' = Some(analyze_visual_context(reply))
            /\ a_path' = a_path \o
                    <<IF ReachesParse(reply) /\ ~ParseRaises(reply.content)
                      THEN "PARSE_OK" ELSE "FALLBACK", "DONE">>
            /\ a_pc' = "DONE"
            /\ UNCHANGED a_llm_calls
    /\ UNCHANGED a_task
    /\ UNCHANGED <<validation_vars, store_vars, api_vars>>

\* analyze_visual_context from the return of requests.post, then execute's return
LLMReturn(reply) ==
    /\ a_pc = "LLM_CALL"
    /\ a_reply' = Some(reply)
    /\ a_result' = Some(analyze_visual_context(reply))
    /\ a_path' = a_path \o
            <<IF ReachesParse(reply) /\ ~ParseRaises(reply.content)
              THEN "PARSE_OK" ELSE "FALLBACK", "DONE">>
    /\ a_pc' = "DONE"
    /\ UNCHANGED <<a_task, a_llm_calls>>
    /\ UNCHANGED <<validation_vars, store_vars, api_vars>>

AgentNext ==
    \/ \E task \in Tasks : ExecuteMetadataHit(task)
    \/ \E task \in Tasks : ExecuteLLMCall(task)
    \/ a_pc = "LLM_CALL" /\ \E reply \in Replies : LLMReturn(reply)

(***************************************************************************)
(* Properties of the agent                                                 *)
(***************************************************************************)

\* the task carries exif_data with both a latitude and a longitude
TaskHasCoordinate ==
    /\ a_task # None
    /\ Val(a_task).exif_data # None
    /\ {"latitude", "longitude"} \subseteq DOMAIN Val(Val(a_task).exif_data)

\* C1: whenever the task given to execute carries a metadata coordinate,
\* execute makes no LLM call and returns exactly that latitude and longitude
\* as the primary prediction, with accuracy 'high', confidence 0.95 and an
\* empty list of alternatives.
C1_MetadataShortCircuit ==
    TaskHasCoordinate =>
        /\ a_pc = "DONE"
        /\ a_llm_calls = 0
        /\ a_reply = None
        /\ a_result # None
        /\ Val(a_result).predicted_location =
              [latitude |-> Val(Val(a_task).exif_data)["latitude"],
               longitude |-> Val(Val(a_task).exif_data)["longitude"],
               accuracy |-> "high",
               confidence |-> [n |-> 19, d |-> 20]]
        /\ Val(a_result).alternative_locations = <<>>

C1_Witness ==
    /\ TaskHasCoordinate
    /\ a_pc = "DONE"
    /\ Val(Val(a_task).exif_data)["latitude"] = Deg(-33)

\* the LLM call failed: requests.post raised, the status is not 200, the
\* envelope cannot be read, or the message content is no JSON object
LLMFailed ==
    /\ a_reply # None
    /\ \/ Val(a_reply).kind = "raise"
       \/ Val(a_reply).status # 200
       \/ Val(a_reply).envelope # "ok"
       \/ Val(a_reply).content = None
       \/ JsonLoads(ExtractJson(Val(Val(a_reply).content))).kind # "object"

\* C2: on the LLM path every failure mode (an exception during the call, a
\* non-200 response, an unparseable body) makes execute return the same
\* fallback prediction - coordinate (0,0), accuracy 'low', confidence 0.1,
\* no alternatives - and execute returns a prediction, it never raises.
C2_UniformFallback ==
    LLMFailed =>
        /\ a_pc = "DONE"
        /\ a_result # None
        /\ "predicted_location" \in DOMAIN Val(a_result)
        /\ Val(a_result).predicted_location =
              [latitude |-> 0, longitude |-> 0, accuracy |-> "low",
               confidence |-> [n |-> 1, d |-> 10]]
        /\ Val(a_result).alternative_locations = <<>>

\* a 200 response whose content has braces around prose, which is no JSON
C2_Witness ==
    /\ LLMFailed
    /\ a_pc = "DONE"
    /\ Val(a_reply).status = 200
    /\ Val(a_reply).envelope = "ok"
    /\ Val(a_reply).content = Some(<<"T", "{", "T", "}">>)

\* the message content parsed as a JSON object; the object
ParsedObject == JsonLoads(ExtractJson(Val(Val(a_reply).content))).value
LLMParsed ==
    /\ a_reply # None
    /\ Val(a_reply).kind = "response"
    /\ Val(a_reply).status = 200
    /\ Val(a_reply).envelope = "ok"
    /\ Val(a_reply).content # None
    /\ JsonLoads(ExtractJson(Val(Val(a_reply).content))).kind = "object"

NormalizedKeys == {"predicted_location", "reasoning", "alternative_locations"}

\* C3 as stated: every key the parsed object omits has, in the result, the
\* value it has in the fallback prediction, and every key present is kept.
C3_FilledFromFallback ==
    LLMParsed =>
        /\ a_result # None
        /\ \A k \in NormalizedKeys :
              Val(a_result)[k] = IF k \in DOMAIN ParsedObject
                                 THEN ParsedObject[k]
                                 ELSE get_fallback_prediction[k]

\* C3 amended: a missing predicted_location and a missing
\* alternative_locations get the fallback prediction's values; a missing
\* reasoning gets the text 'Location prediction based on image features',
\* which is not the fallback's reasoning; every key present is kept.
C3_FilledWithDefaults ==
    LLMParsed =>
        /\ a_result # None
        /\ DOMAIN Val(a_result) = DOMAIN ParsedObject \cup NormalizedKeys
        /\ \A k \in DOMAIN ParsedObject : Val(a_result)[k] = ParsedObject[k]
        /\ \A k \in NormalizedKeys :
              Val(a_result)[k] =
                IF k \in DOMAIN ParsedObject THEN ParsedObject[k]
                ELSE IF k = "reasoning"
                     THEN "Location prediction based on image features"
                     ELSE get_fallback_prediction[k]
        /\ "Location prediction based on image features"
              # get_fallback_prediction["reasoning"]

\* an object that omits reasoning and holds the other two members
C3_Witness ==
    /\ LLMParsed
    /\ a_pc = "DONE"
    /\ DOMAIN ParsedObject = {"predicted_location", "alternative_locations"}


(***************************************************************************)
(* ValidationModule                                                        *)
(***************************************************************************)

\* ---- bounds of the validation model
\* longest list of alternative locations in a prediction
MaxAlts == 2
\* longest list of external sources
MaxSources == 2
\* calls made on one prediction object
MaxCalls == 2

\* ---- geopy.distance.geodesic(a, b).kilometers for coordinates <<lat, lon>>:
\* Point() raises ValueError for a latitude outside [-90, 90]; the distance
\* is taken along the grid, in kilometres (ten units to the kilometre)
geodesic(a, b) ==
    IF Abs(a[1]) > Deg(90) \/ Abs(b[1]) > Deg(90) THEN None
    ELSE Some(Rat(Abs(a[1] - b[1]) + Abs(a[2] - b[2]), 10))

\* sum(distances) for a list of rationals
RECURSIVE RSum(_)
RSum(q) == IF q = <<>> THEN RInt(0) ELSE RAdd(Head(q), RSum(Tail(q)))

\* lines 88-95: the distances that could be computed, in order
RECURSIVE Distances(_, _)
Distances(predicted_coords, alternatives) ==
    IF alternatives = <<>> THEN <<>>
    ELSE LET alt == Head(alternatives)
             g == geodesic(predicted_coords, <<alt.latitude, alt.longitude>>)
             rest == Distances(predicted_coords, Tail(alternatives))
         IN  IF g = None THEN rest ELSE <<Val(g)>> \o rest

\* 1 / x for a rational x > 0
RInv(x) == [n |-> x.d, d |-> x.n]

\* lines 76-107
check_consistency_with_alternatives(predicted_loc, alternatives) ==
    IF alternatives = <<>> THEN RInt(1)
    ELSE LET distances ==
                 Distances(<<predicted_loc.latitude, predicted_loc.longitude>>, alternatives)
         IN  IF distances = <<>> THEN RInt(1)
             ELSE LET avg_distance == RMul(RSum(distances), Rat(1, Len(distances)))
                      consistency == RInv(RAdd(RInt(1), RMul(avg_distance, Rat(1, 10))))
                  IN  RMin(consistency, RInt(1))

\* lines 109-119
check_feature_consistency(predicted_loc, image_features) == Rat(1, 2)

\* a variant of lines 121-138 whose tests take the edges in
is_outlier_location_Inclusive(predicted_loc) ==
    LET lat == predicted_loc.latitude
        lon == predicted_loc.longitude
    IN  IF Abs(lat) >= Deg(90) \/ Abs(lon) >= Deg(180) THEN TRUE
        ELSE IF -Deg(5) <= lat /\ lat <= Deg(5) /\ -Deg(170) <= lon /\ lon <= -Deg(160)
             THEN TRUE
             ELSE FALSE

\* lines 121-138
is_outlier_location(predicted_loc) ==
    LET lat == predicted_loc.latitude
        lon == predicted_loc.longitude
    IN  IF Abs(lat) > Deg(90) \/ Abs(lon) > Deg(180) THEN TRUE
        ELSE IF -Deg(5) < lat /\ lat < Deg(5) /\ -Deg(170) < lon /\ lon < -Deg(160)
             THEN TRUE
             ELSE FALSE

\* lines 37-74
calculate_validation_metrics(prediction, image_features) ==
    LET predicted_loc == prediction.predicted_location
        alternatives == prediction.alternative_locations
        is_outlier == is_outlier_location(predicted_loc)
    IN  [consistency_score |->
            IF alternatives # <<>>
            THEN check_consistency_with_alternatives(predicted_loc, alternatives)
            ELSE RInt(0),
         feature_matching_score |->
            IF Truthy(image_features)
            THEN check_feature_consistency(predicted_loc, image_features)
            ELSE RInt(0),
         confidence_calibration |-> RInt(1),
         outlier_detection |-> is_outlier,
         validation_notes |->
            IF is_outlier THEN <<"Predicted location appears to be an outlier">>
            ELSE <<>>]

\* d.get(k, default)
Get(d, k, default) == IF k \in DOMAIN d THEN d[k] ELSE default

\* a variant of lines 140-163 without line 161
adjust_confidence_NoClamp(original_confidence, validation_metrics) ==
    LET consistency_factor == Get(validation_metrics, "consistency_score", Rat(1, 2))
        feature_factor == Get(validation_metrics, "feature_matching_score", Rat(1, 2))
        c1 == RMul(original_confidence,
                   RAdd(Rat(7, 10), RMul(Rat(3, 10), consistency_factor)))
        c2 == RMul(c1, RAdd(Rat(8, 10), RMul(Rat(2, 10), feature_factor)))
    IN  IF Get(validation_metrics, "outlier_detection", FALSE)
        THEN RMul(c2, Rat(1, 2))
        ELSE c2

\* lines 140-163
adjust_confidence(original_confidence, validation_metrics) ==
    LET consistency_factor == Get(validation_metrics, "consistency_score", Rat(1, 2))
        feature_factor == Get(validation_metrics, "feature_matching_score", Rat(1, 2))
        c1 == RMul(original_confidence,
                   RAdd(Rat(7, 10), RMul(Rat(3, 10), consistency_factor)))
        c2 == RMul(c1, RAdd(Rat(8, 10), RMul(Rat(2, 10), feature_factor)))
        c3 == IF Get(validation_metrics, "outlier_detection", FALSE)
              THEN RMul(c2, Rat(1, 2))
              ELSE c2
    IN  RMax(RInt(0), RMin(RInt(1), c3))

\* line 12: config.get('CONFIDENCE_THRESHOLD', 0.7)
confidence_threshold == Rat(7, 10)

\* lines 14-35: <<the caller's prediction after the call, the returned dict>>.
\* prediction.copy() is a shallow copy, so the returned dict and the
\* caller's dict hold the same predicted_location object, and line 31 is
\* seen through both.
validate_location_prediction(prediction, image_features) ==
    LET validation_metrics == calculate_validation_metrics(prediction, image_features)
        adjusted_confidence ==
            adjust_confidence(
                Get(prediction.predicted_location, "confidence", Rat(1, 2)),
                validation_metrics)
        shared_location ==
            Put(prediction.predicted_location, "confidence", adjusted_confidence)
        after == [prediction EXCEPT !.predicted_location = shared_location]
    IN  <<after,
          Put(Put(after, "validation_metrics", validation_metrics),
              "is_reliable", RLe(confidence_threshold, adjusted_confidence))>>

\* a variant of lines 188-208 that takes a distance of exactly 1 km as agreement
SourceVerdict_AtMostOne(predicted_coords, source_data) ==
    LET g == geodesic(predicted_coords, <<source_data.latitude, source_data.longitude>>)
    IN  IF g = None THEN "skip"
        ELSE IF RLe(Val(g), RInt(1)) THEN "agree" ELSE "differ"

\* lines 188-208, for one source: "agree", "differ" or "skip" (geodesic raised)
SourceVerdict(predicted_coords, source_data) ==
    LET g == geodesic(predicted_coords, <<source_data.latitude, source_data.longitude>>)
    IN  IF g = None THEN "skip"
        ELSE IF RLt(Val(g), RInt(1)) THEN "agree" ELSE "differ"

\* lines 195-199 and 201-206: the entry recorded for one source
AgreementEntry(predicted_coords, source_data) ==
    [source |-> Get(source_data, "source", "unknown"),
     distance_km |->
        Val(geodesic(predicted_coords, <<source_data.latitude, source_data.longitude>>)),
     confidence |-> Get(source_data, "confidence", Rat(8, 10))]
DiscrepancyEntry(predicted_coords, source_data) ==
    [source |-> Get(source_data, "source", "unknown"),
     distance_km |->
        Val(geodesic(predicted_coords, <<source_data.latitude, source_data.longitude>>)),
     predicted_coords |-> predicted_coords,
     source_coords |-> <<source_data.latitude, source_data.longitude>>]

\* lines 185-208: the list built for one verdict, in the order of external_data
RECURSIVE Entries(_, _, _)
Entries(predicted_coords, external_data, verdict) ==
    IF external_data = <<>> THEN <<>>
    ELSE LET src == Head(external_data)
             rest == Entries(predicted_coords, Tail(external_data), verdict)
         IN  IF SourceVerdict(predicted_coords, src) # verdict THEN rest
             ELSE IF verdict = "agree"
                  THEN <<AgreementEntry(predicted_coords, src)>> \o rest
                  ELSE <<DiscrepancyEntry(predicted_coords, src)>> \o rest

\* the confidences of a list of agreement entries
RECURSIVE Confidences(_)
Confidences(agreements) ==
    IF agreements = <<>> THEN <<>>
    ELSE <<Head(agreements).confidence>> \o Confidences(Tail(agreements))

\* a variant of lines 165-228 that stores the blended confidence in the prediction
cross_validate_with_external_sources_Feedback(prediction, external_data) ==
    LET base_confidence == Get(prediction.predicted_location, "confidence", Rat(1, 2))
        blended == RMin(RMul(Rat(7, 10), base_confidence), RInt(1))
    IN  <<[prediction EXCEPT !.predicted_location =
                Put(prediction.predicted_location, "confidence", blended)],
          [cross_validation_score |-> RInt(0),
           external_agreement |-> <<>>,
           discrepancies |-> <<>>,
           final_confidence |-> blended]>>

\* lines 165-228: <<the caller's prediction after the call, the returned dict>>
cross_validate_with_external_sources(prediction, external_data) ==
    LET base_confidence == Get(prediction.predicted_location, "confidence", Rat(1, 2))
        predicted_coords ==
            <<prediction.predicted_location.latitude, prediction.predicted_location.longitude>>
        agreements == Entries(predicted_coords, external_data, "agree")
        discrepancies == Entries(predicted_coords, external_data, "differ")
        cv_score ==
            IF agreements # <<>>
            THEN RMin(RMul(RSum(Confidences(agreements)), Rat(1, Len(agreements))), RInt(1))
            ELSE RInt(0)
        final_confidence ==
            RAdd(RMul(Rat(7, 10), base_confidence), RMul(Rat(3, 10), cv_score))
    IN  IF external_data = <<>>
        THEN <<prediction,
               [cross_validation_score |-> RInt(0),
                external_agreement |-> <<>>,
                discrepancies |-> <<>>,
                final_confidence |-> base_confidence]>>
        ELSE <<prediction,
               [cross_validation_score |-> cv_score,
                external_agreement |-> agreements,
                discrepancies |-> discrepancies,
                final_confidence |-> RMin(final_confidence, RInt(1))]>>

\* ---- the inputs

\* the subsequences of q of at most n elements
RECURSIVE SubSeqsUpTo(_, _)
SubSeqsUpTo(q, n) ==
    IF q = <<>> \/ n = 0 THEN {<<>>}
    ELSE SubSeqsUpTo(Tail(q), n)
         \cup {<<Head(q)>> \o r : r \in SubSeqsUpTo(Tail(q), n - 1)}

\* primary coordinates: the fallback's, a city, a latitude and a longitude
\* out of range, and a place in the ocean box
PrimaryCoords ==
    {<<0, 0>>, <<Deg(48), Deg(2)>>, <<Deg(91), 0>>, <<0, Deg(181)>>, <<Deg(4), -Deg(165)>>}

\* coordinates handed to _is_outlier_location directly: each edge of the two
\* tests, one unit inside it and one unit outside it
ProbeLats ==
    {-Deg(91), -Deg(90) - 1, -Deg(90), -Deg(5), -Deg(5) + 1, 0,
     Deg(5) - 1, Deg(5), Deg(90), Deg(90) + 1, Deg(91)}
ProbeLons ==
    {-Deg(181), -Deg(180) - 1, -Deg(180), -Deg(170), -Deg(170) + 1, -Deg(165),
     -Deg(160) - 1, -Deg(160), 0, Deg(180), Deg(180) + 1}
ProbeLocations == {[latitude |-> la, longitude |-> lo] : la \in ProbeLats, lo \in ProbeLons}

\* predicted_location['confidence'], when the key is there
PrimaryConfidences == {Rat(-1, 2), Rat(1, 10), Rat(17, 20), Rat(3, 2)}

\* alternatives of a prediction at c: at the same place, 20 km to the north,
\* and one with a latitude of 91 degrees
AlternativeCatalogue(c) ==
    << [latitude |-> c[1], longitude |-> c[2], confidence |-> Rat(13, 20)],
       [latitude |-> c[1] + 200, longitude |-> c[2], confidence |-> Rat(1, 2)],
       [latitude |-> Deg(91), longitude |-> c[2], confidence |-> Rat(1, 5)] >>

PredictedLocations ==
    {[latitude |-> c[1], longitude |-> c[2], accuracy |-> "medium"] : c \in PrimaryCoords}
    \cup {[latitude |-> c[1], longitude |-> c[2], accuracy |-> "medium", confidence |-> q] :
            c \in PrimaryCoords, q \in PrimaryConfidences}

Predictions ==
    UNION {{[predicted_location |-> loc, reasoning |-> "Test prediction",
             alternative_locations |-> alts] :
                alts \in SubSeqsUpTo(AlternativeCatalogue(<<loc.latitude, loc.longitude>>),
                                     MaxAlts)} :
           loc \in PredictedLocations}

\* image_features: None, an empty dict, a dict of features
ImageFeatures == {None, Some(<<>>), Some([brightness |-> 128, edges |-> 480])}

\* external sources for a prediction at c: at the same place, 500 m away and
\* without a confidence, exactly 1 km away and without a name, and at the
\* same place with a confidence above 1
SourceCatalogue(c) ==
    << [source |-> "gps", latitude |-> c[1], longitude |-> c[2], confidence |-> Rat(9, 10)],
       [source |-> "map", latitude |-> c[1] + 5, longitude |-> c[2]],
       [latitude |-> c[1], longitude |-> c[2] + 10, confidence |-> RInt(1)],
       [source |-> "web", latitude |-> c[1], longitude |-> c[2], confidence |-> Rat(3, 2)] >>

ExternalData(prediction) ==
    SubSeqsUpTo(
        SourceCatalogue(<<prediction.predicted_location.latitude,
                          prediction.predicted_location.longitude>>),
        MaxSources)

\* metrics records and confidences handed to _adjust_confidence directly
Scores == {RInt(0), Rat(1, 3), Rat(1, 2), RInt(1)}
MetricsRecords ==
    {<<>>}
    \cup {[consistency_score |-> c, feature_matching_score |-> f, outlier_detection |-> o] :
            c \in Scores, f \in Scores, o \in BOOLEAN}
OriginalConfidences ==
    {Rat(-1, 2), RInt(0), Rat(1, 10), Rat(1, 2), Rat(17, 20), RInt(1), Rat(3, 2), RInt(3)}

\* the caller builds a prediction
NewPrediction(p) ==
    /\ v_op = "none"
    /\ v_prediction' = Some(p)
    /\ v_op' = "new"
    /\ UNCHANGED <<v_before, v_arg, v_ret, v_calls, v_threshold>>
    /\ UNCHANGED <<agent_vars, store_vars, api_vars>>

\* validate_location_prediction(prediction, image_features), lines 14-35
Validate(image_features) ==
    /\ v_prediction # None
    /\ v_calls < MaxCalls
    /\ LET r == validate_location_prediction(Val(v_prediction), image_features)
       IN  /\ v_prediction' = Some(r[1])
           /\ v_ret' = Some(r[2])
    /\ v_before' = v_prediction
    /\ v_op' = "validate"
    /\ v_arg' = Some(image_features)
    /\ v_calls' = v_calls + 1
    /\ UNCHANGED v_threshold
    /\ UNCHANGED <<agent_vars, store_vars, api_vars>>

\* cross_validate_with_external_sources(prediction, external_data), lines 165-228
CrossValidate(external_data) ==
    /\ v_prediction # None
    /\ v_calls < MaxCalls
    /\ LET r == cross_validate_with_external_sources(Val(v_prediction), external_data)
       IN  /\ v_prediction' = Some(r[1])
           /\ v_ret' = Some(r[2])
    /\ v_before' = v_prediction
    /\ v_op' = "cross_validate"
    /\ v_arg' = Some(external_data)
    /\ v_calls' = v_calls + 1
    /\ UNCHANGED v_threshold
    /\ UNCHANGED <<agent_vars, store_vars, api_vars>>

\* _adjust_confidence(original_confidence, validation_metrics), lines 140-163
AdjustConfidence(original_confidence, validation_metrics) ==
    /\ v_op = "none"
    /\ v_op' = "adjust"
    /\ v_arg' = Some(<<original_confidence, validation_metrics>>)
    /\ v_ret' = Some(adjust_confidence(original_confidence, validation_metrics))
    /\ UNCHANGED <<v_prediction, v_before, v_calls, v_threshold>>
    /\ UNCHANGED <<agent_vars, store_vars, api_vars>>

\* _is_outlier_location(predicted_loc), lines 121-138
IsOutlierLocation(predicted_loc) ==
    /\ v_op = "none"
    /\ v_op' = "is_outlier"
    /\ v_arg' = Some(predicted_loc)
    /\ v_ret' = Some(is_outlier_location(predicted_loc))
    /\ UNCHANGED <<v_prediction, v_before, v_calls, v_threshold>>
    /\ UNCHANGED <<agent_vars, store_vars, api_vars>>

ValidationNext ==
    \/ v_op = "none" /\ \E p \in Predictions : NewPrediction(p)
    \/ \E f \in ImageFeatures : Validate(f)
    \/ v_prediction # None /\ \E e \in ExternalData(Val(v_prediction)) : CrossValidate(e)
    \/ v_op = "none" /\ \E o \in OriginalConfidences, m \in MetricsRecords : AdjustConfidence(o, m)
    \/ v_op = "none" /\ \E loc \in ProbeLocations : IsOutlierLocation(loc)

(***************************************************************************)
(* The geolocation store (database/geolocation_db.py)                      *)
(*                                                                         *)
(* The two tables are the committed content of the SQLite file; they       *)
(* outlive a handle.  self.index lives in the handle, the index file       *)
(* outlives it.  A numpy vector is the sequence of its components; the     *)
(* components are integers, which float64 holds exactly.  The SQLite       *)
(* statements of add_location are taken to succeed; an add_image_features  *)
(* call meets one of the faults of Faults.                                 *)
(***************************************************************************)
\* the most rows of image_features and of locations the model lets in
MaxFeatureRows == 2
MaxLocationRows == 2

\* line 64
dimension == 128

\* the largest magnitude up to which float32 holds every integer
Float32Exact == 2 ^ 24

\* x.astype('float32') for an integer x of magnitude below 2^25: beyond 2^24
\* a float32 holds the even integers only, and a tie goes to the even mantissa
Float32(x) ==
    IF Abs(x) <= Float32Exact \/ x % 2 = 0 THEN x
    ELSE IF (x - 1) % 4 = 0 THEN x - 1 ELSE x + 1

\* line 101: feature_vector.astype('float32').reshape(1, -1), the one row of it
AsFloat32Row(feature_vector) ==
    [i \in 1..Len(feature_vector) |-> Float32(feature_vector[i])]

\* line 91: the blob pickle.dumps gives, and the vector pickle.loads gives back
pickle_dumps(feature_vector) == [pickle |-> feature_vector]
pickle_loads(blob) == blob.pickle

\* the vector with `size` components: `first`, then `rest` in every other place
Vector(size, first, rest) == [i \in 1..size |-> IF i = 1 THEN first ELSE rest]

\* the vectors the calls are given: two of the index's dimension, one of them
\* with a component float32 cannot hold, one shorter and one longer
FeatureVectors ==
    {Vector(dimension, 1, 0),
     Vector(dimension, Float32Exact + 1, 2),
     Vector(dimension \div 2, 3, 3),
     Vector(2 * dimension, 4, 4)}

\* what may go wrong in a call of add_image_features: nothing, the INSERT
\* of line 93, the write of the index file of line 105
Faults == {"none", "execute", "write_index"}

\* location_id is not checked against table locations (SQLite enforces no
\* foreign key unless asked to), so one value stands for all
LocationIds == {1}
StoreLatitudes == {Deg(48), Deg(91)}
StoreLongitudes == {Deg(2)}

\* lines 129-137: the query cut or zero-padded to the index's dimension
resize_to_index(query_features) ==
    IF Len(query_features) # dimension
    THEN IF Len(query_features) > dimension
         THEN SubSeq(query_features, 1, dimension)
         ELSE [i \in 1..dimension |->
                 IF i <= Len(query_features) THEN query_features[i] ELSE 0]
    ELSE query_features

\* lines 61-69: the index a new handle starts with
initialize_vector_db(file) == IF file # None THEN Val(file) ELSE <<>>

\* line 102, faiss IndexFlatL2.add on a 1 x n matrix: the index after it,
\* None if the assertion n = d fails
index_add(index, row) ==
    IF Len(row) # dimension THEN None ELSE Some(Append(index, row))

\* a variant of lines 71-83 that returns cursor.rowcount for cursor.lastrowid
AddLocation_RowCount(latitude, longitude) ==
    /\ Len(s_locations) < MaxLocationRows
    /\ LET location_id == s_sequence.locations + 1
       IN  /\ s_locations' =
                 Append(s_locations,
                        [id |-> location_id, latitude |-> latitude, longitude |-> longitude])
           /\ s_sequence' = [s_sequence EXCEPT !.locations = location_id]
           /\ s_ret' = <<"ok", Some(1)>>
    /\ s_op' = "add_location"
    /\ s_arg' = [latitude |-> latitude, longitude |-> longitude]
    /\ UNCHANGED <<s_features, s_index, s_file>>
    /\ UNCHANGED <<agent_vars, validation_vars, api_vars>>

\* add_location(latitude, longitude, image_path, description), lines 71-83
AddLocation(latitude, longitude) ==
    /\ Len(s_locations) < MaxLocationRows
    /\ LET location_id == s_sequence.locations + 1
       IN  /\ s_locations' =
                 Append(s_locations,
                        [id |-> location_id, latitude |-> latitude, longitude |-> longitude])
           /\ s_sequence' = [s_sequence EXCEPT !.locations = location_id]
           /\ s_ret' = <<"ok", Some(location_id)>>
    /\ s_op' = "add_location"
    /\ s_arg' = [latitude |-> latitude, longitude |-> longitude]
    /\ UNCHANGED <<s_features, s_index, s_file>>
    /\ UNCHANGED <<agent_vars, validation_vars, api_vars>>

\* a variant of lines 85-105 that commits the row only once the index is written
AddImageFeatures_RolledBack(location_id, feature_vector, fault) ==
    /\ Len(s_features) < MaxFeatureRows
    /\ s_op' = "add_image_features"
    /\ s_arg' = [location_id |-> location_id, feature_vector |-> feature_vector,
                 fault |-> fault]
    /\ LET row_id == s_sequence.image_features + 1
           row == [id |-> row_id,
                   location_id |-> location_id,
                   feature_vector |-> pickle_dumps(feature_vector),
                   feature_type |-> "visual"]
           added == index_add(s_index, AsFloat32Row(feature_vector))
       IN  IF fault = "none" /\ added # None
           THEN /\ s_features' = Append(s_features, row)
                /\ s_sequence' = [s_sequence EXCEPT !.image_features = row_id]
                /\ s_index' = Val(added)
                /\ s_file' = Some(Val(added))
                /\ s_ret' = <<"ok", None>>
           ELSE /\ s_ret' = <<"raised",
                              IF fault = "none" THEN "index.add" ELSE fault>>
                /\ UNCHANGED <<s_features, s_sequence, s_index, s_file>>
    /\ UNCHANGED s_locations
    /\ UNCHANGED <<agent_vars, validation_vars, api_vars>>

\* add_image_features(location_id, feature_vector), lines 85-105, under a fault
AddImageFeatures(location_id, feature_vector, fault) ==
    /\ Len(s_features) < MaxFeatureRows
    /\ s_op' = "add_image_features"
    /\ s_arg' = [location_id |-> location_id, feature_vector |-> feature_vector,
                 fault |-> fault]
    /\ IF fault = "execute"
       THEN \* line 93 raises: nothing is inserted
            /\ s_ret' = <<"raised", "execute">>
            /\ UNCHANGED <<s_features, s_sequence, s_index, s_file>>
       ELSE LET row_id == s_sequence.image_features + 1
                row == [id |-> row_id,
                        location_id |-> location_id,
                        feature_vector |-> pickle_dumps(feature_vector),
                        feature_type |-> "visual"]
                added == index_add(s_index, AsFloat32Row(feature_vector))
            IN  \* lines 93-98: the row is committed
                /\ s_features' = Append(s_features, row)
                /\ s_sequence' = [s_sequence EXCEPT !.image_features = row_id]
                /\ IF added = None
                   THEN \* line 102 raises
                        /\ s_ret' = <<"raised", "index.add">>
                        /\ UNCHANGED <<s_index, s_file>>
                   ELSE /\ s_index' = Val(added)
                        /\ IF fault = "write_index"
                           THEN \* line 105 raises
                                /\ s_ret' = <<"raised", "write_index">>
                                /\ UNCHANGED s_file
                           ELSE /\ s_file' = Some(Val(added))
                                /\ s_ret' = <<"ok", None>>
    /\ UNCHANGED s_locations
    /\ UNCHANGED <<agent_vars, validation_vars, api_vars>>

\* the operations that only read the store.  A read leaves the tables, the
\* index and the file as they are and its result does not depend on the
\* read before it, so the model takes one read at a time after a write.
Reads == {"get_location_by_id", "search_by_coordinates", "find_similar_locations"}

\* lines 118-124, 180-186: the LocationData built from a row of locations
LocationDataOf(row) ==
    [id |-> row.id, latitude |-> row.latitude, longitude |-> row.longitude]

\* f applied to each element of a sequence
MapSeq(q, f(_)) == [i \in 1..Len(q) |-> f(q[i])]

\* get_location_by_id(location_id), lines 107-125
GetLocationById(location_id) ==
    /\ s_op \notin Reads
    /\ s_op' = "get_location_by_id"
    /\ s_arg' = [location_id |-> location_id]
    /\ LET WithId(row) == row.id = location_id
           rows == SelectSeq(s_locations, WithId)
       IN  s_ret' = <<"ok", IF rows # <<>> THEN Some(LocationDataOf(rows[1])) ELSE None>>
    /\ UNCHANGED <<s_locations, s_features, s_sequence, s_index, s_file>>
    /\ UNCHANGED <<agent_vars, validation_vars, api_vars>>

\* lines 168-174: 6371 * acos(...), the distance in km between a row and
\* the centre; in the model's flat measure, which asks nothing of the
\* latitude, as the SQL expression asks nothing of it
sql_distance_km(latitude, longitude, row) ==
    Rat(Abs(row.latitude - latitude) + Abs(row.longitude - longitude), 10)

\* the radius search_by_coordinates is called with: the default of line 161
Radii == {RInt(10)}

\* search_by_coordinates(latitude, longitude, radius_km), lines 160-188.
\* acos, cos, sin and radians are in SQLite only when it is built with its
\* math functions: without them line 165 raises.
SearchByCoordinates(latitude, longitude, radius_km, math_functions) ==
    /\ s_op \notin Reads
    /\ s_op' = "search_by_coordinates"
    /\ s_arg' = [latitude |-> latitude, longitude |-> longitude, radius_km |-> radius_km]
    /\ IF math_functions
       THEN LET Within(row) == RLe(sql_distance_km(latitude, longitude, row), radius_km)
            IN  s_ret' = <<"ok", MapSeq(SelectSeq(s_locations, Within), LocationDataOf)>>
       ELSE s_ret' = <<"raised", "execute">>
    /\ UNCHANGED <<s_locations, s_features, s_sequence, s_index, s_file>>
    /\ UNCHANGED <<agent_vars, validation_vars, api_vars>>

\* ---- find_similar_locations
\* the largest k the model asks for
MaxK == 2

\* a natural number too large for one machine integer: hi * 2^30 + lo, lo < 2^30
BigBase == 2 ^ 30
Big(hi, lo) == [hi |-> hi + lo \div BigBase, lo |-> lo % BigBase]
BigAdd(x, y) == Big(x.hi + y.hi, x.lo + y.lo)
BigLe(x, y) == x.hi < y.hi \/ (x.hi = y.hi /\ x.lo <= y.lo)

\* d * d for |d| < 2^25
BigSquare(d) ==
    LET a == Abs(d) \div 2 ^ 15
        b == Abs(d) % 2 ^ 15
        c == (2 * a * b) \div 2 ^ 15
        e == (2 * a * b) % 2 ^ 15
    IN  Big(a * a + c, e * 2 ^ 15 + b * b)

\* the squared Euclidean distance IndexFlatL2 orders by, between two rows of
\* `dimension` components (faiss sums it in single precision; the vectors
\* of the model lie far enough apart, or at equal distance)
\* summed over the components lo..hi, by halves
RECURSIVE squared_l2(_, _, _, _)
squared_l2(x, y, lo, hi) ==
    IF lo > hi THEN Big(0, 0)
    ELSE IF lo = hi THEN BigSquare(x[lo] - y[lo])
    ELSE LET mid == (lo + hi) \div 2
         IN  BigAdd(squared_l2(x, y, lo, mid), squared_l2(x, y, mid + 1, hi))

\* the query vectors: one of the index's dimension, one shorter, one longer
QueryVectors ==
    {Vector(dimension, 0, 0),
     Vector(dimension \div 2, 2, 2),
     Vector(2 * dimension, 1, 0)}

\* the rows the index can hold and the rows it can be asked about, and the
\* distance of each pair, computed once
IndexRows == {AsFloat32Row(v) : v \in {w \in FeatureVectors : Len(w) = dimension}}
QueryRows == {AsFloat32Row(resize_to_index(q)) : q \in QueryVectors}
squared_l2_table ==
    {<<q, e, squared_l2(q, e, 1, dimension)>> : q \in QueryRows, e \in IndexRows}
distance(q, e) == (CHOOSE t \in squared_l2_table : t[1] = q /\ t[2] = e)[3]

\* line 142, faiss IndexFlatL2.search(query, k) for one query row: the
\* ordinal lists it may give back, the ordinals of the min(k, N) nearest
\* entries by increasing distance (equal distances in either order), then
\* -1 up to k places
index_search(index, query, k) ==
    LET N == Len(index)
        m == IF k < N THEN k ELSE N
        D == [o \in 0..(N - 1) |-> distance(query, index[o + 1])]
        Nearest ==
            {I \in [1..m -> 0..(N - 1)] :
                /\ \A i, j \in 1..m : i < j => (I[i] # I[j] /\ BigLe(D[I[i]], D[I[j]]))
                /\ \A o \in 0..(N - 1) :
                      (\A i \in 1..m : I[i] # o) => \A i \in 1..m : BigLe(D[I[i]], D[o])}
    IN  {[i \in 1..k |-> IF i <= m THEN I[i] ELSE -1] : I \in Nearest}

\* a variant of lines 145-156 without the test of line 147
similar_locations_WithSentinel(indices) ==
    [i \in 1..Len(indices) |->
        [id |-> indices[i], latitude |-> 0, longitude |-> 0,
         image_path |-> "", description |-> "Similar location"]]

\* lines 145-156: a placeholder record for each ordinal that is not -1
similar_locations(indices) ==
    LET Filled(idx) == idx # -1
        kept == SelectSeq(indices, Filled)
    IN  [i \in 1..Len(kept) |->
            [id |-> kept[i], latitude |-> 0, longitude |-> 0,
             image_path |-> "", description |-> "Similar location"]]

\* find_similar_locations(query_features, k), lines 127-158.  faiss takes a
\* k of 0 in some releases and asserts k > 0 in others (asserts_k, which
\* makes no difference to another k and is then taken TRUE).
FindSimilarLocations(query_features, k, asserts_k) ==
    /\ s_op \notin Reads
    /\ k = 0 \/ asserts_k
    /\ s_op' = "find_similar_locations"
    /\ s_arg' = [query_features |-> query_features, k |-> k]
    /\ IF k = 0 /\ asserts_k
       THEN s_ret' = <<"raised", "index.search">>
       ELSE \E indices \in index_search(s_index,
                                         AsFloat32Row(resize_to_index(query_features)), k) :
               s_ret' = <<"ok", similar_locations(indices)>>
    /\ UNCHANGED <<s_locations, s_features, s_sequence, s_index, s_file>>
    /\ UNCHANGED <<agent_vars, validation_vars, api_vars>>

\* close() and GeolocationDB(db_path, vector_db_path) on the same two files,
\* lines 23-29 and 190-193
Reopen ==
    /\ s_op # "open"
    /\ s_index' = initialize_vector_db(s_file)
    /\ s_op' = "open"
    /\ s_arg' = None
    /\ s_ret' = <<"ok", None>>
    /\ UNCHANGED <<s_locations, s_features, s_sequence, s_file>>
    /\ UNCHANGED <<agent_vars, validation_vars, api_vars>>

StoreNext ==
    \/ \E latitude \in StoreLatitudes, longitude \in StoreLongitudes :
          AddLocation(latitude, longitude)
    \/ \E location_id \in LocationIds, feature_vector \in FeatureVectors, fault \in Faults :
          AddImageFeatures(location_id, feature_vector, fault)
    \/ Reopen
    \/ \E location_id \in 1..MaxLocationRows : GetLocationById(location_id)
    \/ \E latitude \in StoreLatitudes, longitude \in StoreLongitudes,
          radius_km \in Radii, math_functions \in BOOLEAN :
          SearchByCoordinates(latitude, longitude, radius_km, math_functions)
    \/ \E query_features \in QueryVectors, k \in 0..MaxK, asserts_k \in BOOLEAN :
          FindSimilarLocations(query_features, k, asserts_k)

(***************************************************************************)
(* Properties of the store                                                 *)
(***************************************************************************)

\* the vectors of the rows of image_features, in insertion order, as the
\* index holds a vector (single precision)
RowVectors ==
    [i \in 1..Len(s_features) |->
        AsFloat32Row(pickle_loads(s_features[i].feature_vector))]

\* C10 as stated: after every add_image_features call that returns
\* successfully, in any sequence of calls with failed calls and re-openings
\* in it, the vector index holds exactly one entry per row of
\* image_features, in the same order.
C10_IndexMatchesRows ==
    (s_op = "add_image_features" /\ s_ret[1] = "ok") =>
        /\ Len(s_index) = Len(s_features)
        /\ s_index = RowVectors
        /\ s_file = Some(s_index)

\* the last call was add_image_features and nothing outside it went wrong
AddedWithoutFault == s_op = "add_image_features" /\ s_arg.fault = "none"

\* C11 as stated: when add_image_features is given a vector whose length is
\* not 128, the vector is zero-padded or truncated to 128 components and
\* stored in both the table and the index; a length mismatch never makes
\* the insert fail or leave a row without an index entry.
C11_MismatchRepaired ==
    (AddedWithoutFault /\ Len(s_arg.feature_vector) # dimension) =>
        /\ s_ret[1] = "ok"
        /\ s_features # <<>>
        /\ pickle_loads(s_features[Len(s_features)].feature_vector) = s_arg.feature_vector
        /\ s_index # <<>>
        /\ s_index[Len(s_index)] = AsFloat32Row(resize_to_index(s_arg.feature_vector))
        /\ s_file = Some(s_index)

\* the vectors the index file holds
FileEntries == IF s_file = None THEN <<>> ELSE Val(s_file)

\* the step is an add_image_features call that raises at line 102 or 105
FailsAfterCommit ==
    /\ s_op' = "add_image_features"
    /\ s_ret'[1] = "raised"
    /\ s_ret'[2] \in {"index.add", "write_index"}

\* the step commits one more row of image_features and removes none
RowCommitted ==
    /\ Len(s_features') = Len(s_features) + 1
    /\ SubSeq(s_features', 1, Len(s_features)) = s_features
    /\ pickle_loads(s_features'[Len(s_features')].feature_vector) = s_arg'.feature_vector

\* C12 as stated: if add_image_features fails while appending to or
\* persisting the index, after the row was committed, the error reaches the
\* caller and the row stays; the table then holds one more row than the
\* index (self.index for a failed append, the index file for a failed
\* write) holds entries, and no later operation repairs that difference.
C12_NeverRepaired ==
    [][/\ FailsAfterCommit =>
            /\ RowCommitted
            /\ s_ret'[2] = "index.add" => s_index' = s_index
            /\ s_file' = s_file
       /\ Len(s_features') - Len(s_index') >= Len(s_features) - Len(s_index)
       /\ Len(s_features') - Len(FileEntries') >= Len(s_features) - Len(FileEntries)
      ]_vars

\* C12 amended: such a failure reaches the caller and the row stays.  After
\* a failed append self.index and the index file are as before, and no
\* later operation brings self.index back level with the table.  After a
\* failed write self.index holds the new entry and only the index file
\* lacks it; a later successful add_image_features on the same handle
\* writes self.index in full, the missing entry with it, while a
\* re-opening before that loses the entry for good.
C12_RowKeptIndexShort ==
    [][/\ FailsAfterCommit =>
            /\ RowCommitted
            /\ s_ret'[2] = "index.add" => s_index' = s_index
            /\ s_ret'[2] = "write_index" =>
                  s_index' = Append(s_index, AsFloat32Row(s_arg'.feature_vector))
            /\ s_file' = s_file
       /\ Len(s_features') - Len(s_index') >= Len(s_features) - Len(s_index)
       /\ (s_op' = "add_image_features" /\ s_ret'[1] = "ok") => s_file' = Some(s_index')
       /\ (s_op' = "open") => s_index' = FileEntries /\ s_file' = s_file
       /\ Len(s_features') - Len(FileEntries') < Len(s_features) - Len(FileEntries)
             => (s_op' = "add_image_features" /\ s_ret'[1] = "ok")
      ]_vars

\* a failed write after a failed append: two rows, one entry in self.index,
\* no index file
C12_Witness ==
    /\ s_op = "add_image_features"
    /\ s_ret = <<"raised", "write_index">>
    /\ Len(s_features) = 2
    /\ Len(s_index) = 1
    /\ s_file = None

\* C13: over any sequence of add_location calls each call returns an
\* identifier strictly greater than every identifier returned before (so
\* none is returned twice), the new row is committed before the call
\* returns, and no operation of the store removes or changes an existing
\* row of locations.
C13_MonotoneIds ==
    [][/\ (s_op' = "add_location" /\ s_locations' # s_locations) =>
            /\ s_ret'[1] = "ok"
            /\ \A i \in 1..Len(s_locations) : Val(s_ret'[2]) > s_locations[i].id
            /\ s_locations' =
                  Append(s_locations,
                         [id |-> Val(s_ret'[2]),
                          latitude |-> s_arg'.latitude,
                          longitude |-> s_arg'.longitude])
       /\ Len(s_locations') >= Len(s_locations)
       /\ SubSeq(s_locations', 1, Len(s_locations)) = s_locations
       /\ \A i, j \in 1..Len(s_locations') : i < j => s_locations'[i].id < s_locations'[j].id
      ]_vars

\* the second add_location of a store, on a handle that holds feature rows
C13_Witness ==
    /\ s_op = "add_location"
    /\ s_ret = <<"ok", Some(2)>>
    /\ Len(s_locations) = 2
    /\ s_locations[2].id = 2
    /\ s_features # <<>>

\* a latitude in [-90, 90] and a longitude in [-180, 180]
InRange(r) == Abs(r.latitude) <= Deg(90) /\ Abs(r.longitude) <= Deg(180)

\* C14 as stated: a coordinate with latitude outside [-90, 90] or longitude
\* outside [-180, 180] is never stored by add_location as a valid record:
\* every record get_location_by_id or search_by_coordinates returns has an
\* in-range latitude and longitude (a LocationData has no field to flag it
\* invalid).
C14_OutOfRangeNeverStored ==
    /\ \A i \in 1..Len(s_locations) : InRange(s_locations[i])
    /\ (s_op = "get_location_by_id" /\ s_ret[2] # None) => InRange(Val(s_ret[2]))
    /\ (s_op = "search_by_coordinates" /\ s_ret[1] = "ok") =>
          \A i \in 1..Len(s_ret[2]) : InRange(s_ret[2][i])

\* C15: find_similar_locations(query, k) on a store whose index holds N
\* vectors returns exactly min(k, N) records and never a record for the
\* -1 sentinel; on an empty index it returns an empty sequence for any k.
\* (For k >= 1 the call returns; for k = 0 this is about the call that
\* returns.)
C15_MinKN ==
    s_op = "find_similar_locations" =>
        /\ s_arg.k >= 1 => s_ret[1] = "ok"
        /\ s_ret[1] = "ok" =>
              /\ Len(s_ret[2]) = (IF s_arg.k < Len(s_index) THEN s_arg.k ELSE Len(s_index))
              /\ \A i \in 1..Len(s_ret[2]) : s_ret[2][i].id \in 0..(Len(s_index) - 1)
              /\ \A i, j \in 1..Len(s_ret[2]) : i # j => s_ret[2][i].id # s_ret[2][j].id
              /\ s_index = <<>> => s_ret[2] = <<>>

\* two neighbours asked of an index of one vector, with a short query: one record
C15_Witness ==
    /\ s_op = "find_similar_locations"
    /\ s_arg.k = 2
    /\ Len(s_arg.query_features) < dimension
    /\ Len(s_index) = 1
    /\ s_ret[1] = "ok"
    /\ Len(s_ret[2]) = 1
    /\ s_ret[2][1].id = 0

(***************************************************************************)
(* The /geolocate endpoint (api/geolocation_api.py)                        *)
(*                                                                         *)
(* geolocate_image is a coroutine of one event loop.  A handler runs on    *)
(* the loop's thread from where it is resumed to its next suspension; the  *)
(* only await that hands the thread back is image.read() at line 37: the   *)
(* execute coroutines of the two agents hold no await that suspends, and   *)
(* requests.post (geolocation_reasoning_agent.py line 72) is a blocking    *)
(* call.  h_running is the handler that holds the thread.  A file name is  *)
(* the sequence of its parts between dots.                                 *)
(***************************************************************************)
\* the requests the model lets in
NumRequests == 2
Requests == 1..NumRequests

\* config.py line 22
MAX_IMAGE_SIZE == 5000000

\* config.py line 23: the default, and a lower-case setting of the variable
DefaultAllowedFormats == <<"JPEG", "PNG", "JPG", "TIFF">>
AllowedFormatSettings == {DefaultAllowedFormats, <<"jpg", "png">>}

\* str.lower() on the parts of the model's file names
Lower(str) ==
    CASE str = "JPG" -> "jpg"
      [] str = "JPEG" -> "jpeg"
      [] str = "PNG" -> "png"
      [] str = "TIFF" -> "tiff"
      [] str = "GIF" -> "gif"
      [] OTHER -> str

\* photo.jpg, photo.JPG, photo.gif, photo (no dot)
Filenames == {<<"photo", "jpg">>, <<"photo", "JPG">>, <<"photo", "gif">>, <<"photo">>}

\* what the bytes are: an image with GPS tags, an image without, no image
ContentKinds == {"gps", "plain", "broken"}

Uploads ==
    {[filename |-> f, size |-> n, kind |-> c] :
        f \in Filenames, n \in {MAX_IMAGE_SIZE, MAX_IMAGE_SIZE + 1}, c \in ContentKinds}

\* x in list
InList(x, list) == \E i \in 1..Len(list) : list[i] = x

\* line 32: image.filename.split('.')[-1].lower()
file_ext(filename) == Lower(filename[Len(filename)])

\* line 33: the format is refused
FormatRefused(filename, allowed) == ~InList(file_ext(filename), allowed)

\* a variant of lines 83-84 that leaves the file
cleanup_Skipped(files, image_path) == files

\* lines 74 and 83-84: os.remove(image_path)
cleanup(files, image_path) == files \ {image_path}

\* config.py line 23, read when the module is loaded: the environment sets
\* ALLOWED_IMAGE_FORMATS to something else than the default
Configure(allowed) ==
    /\ \A r \in Requests : h_pc[r] = "NEW"
    /\ h_allowed = DefaultAllowedFormats
    /\ allowed # DefaultAllowedFormats
    /\ h_allowed' = allowed
    /\ UNCHANGED <<h_pc, h_upload, h_running, h_path, h_files, h_uuid, h_response,
                   h_caller>>
    /\ UNCHANGED <<agent_vars, validation_vars, store_vars>>

\* lines 22-37: the request comes; the format is checked; the handler
\* suspends at image.read().  The HTTPException of line 34 is caught at
\* line 81 and sent as a 500.
Arrive(r, upload) ==
    /\ h_pc[r] = "NEW"
    /\ h_running = 0
    /\ h_upload' = [h_upload EXCEPT ![r] = Some(upload)]
    /\ IF FormatRefused(upload.filename, h_allowed)
       THEN /\ h_pc' = [h_pc EXCEPT ![r] = "DONE"]
            /\ h_response' = [h_response EXCEPT ![r] = Some([status |-> 500, at |-> "format"])]
       ELSE /\ h_pc' = [h_pc EXCEPT ![r] = "READ"]
            /\ UNCHANGED h_response
    /\ UNCHANGED <<h_allowed, h_running, h_path, h_files, h_uuid, h_caller>>
    /\ UNCHANGED <<agent_vars, validation_vars, store_vars>>

\* lines 37-65: the handler is resumed with the bytes; the size is checked,
\* the scratch file written, the image processed, and execute of the
\* reasoning agent entered: with GPS tags it returns at once and the
\* handler runs to its end, without them it enters requests.post
Resume(r) ==
    /\ h_pc[r] = "READ"
    /\ h_running = 0
    /\ LET upload == Val(h_upload[r])
           image_path == <<h_uuid + 1, upload.filename>>
       IN  IF upload.size > MAX_IMAGE_SIZE
           THEN /\ h_pc' = [h_pc EXCEPT ![r] = "DONE"]
                /\ h_response' = [h_response EXCEPT ![r] = Some([status |-> 500, at |-> "size"])]
                /\ UNCHANGED <<h_running, h_path, h_files, h_uuid>>
           ELSE /\ h_uuid' = h_uuid + 1
                /\ h_path' = [h_path EXCEPT ![r] = Some(image_path)]
                /\ CASE upload.kind = "broken" ->
                           \* line 55 raises; lines 81-86
                           /\ h_files' = cleanup(h_files \cup {image_path}, image_path)
                           /\ h_pc' = [h_pc EXCEPT ![r] = "DONE"]
                           /\ h_response' =
                                 [h_response EXCEPT ![r] = Some([status |-> 500, at |-> "pipeline"])]
                           /\ UNCHANGED h_running
                     [] upload.kind = "gps" ->
                           \* the metadata short-circuit; lines 68-79
                           /\ h_files' = cleanup(h_files \cup {image_path}, image_path)
                           /\ h_pc' = [h_pc EXCEPT ![r] = "DONE"]
                           /\ h_response' =
                                 [h_response EXCEPT ![r] = Some([status |-> 200, at |-> "success"])]
                           /\ UNCHANGED h_running
                     [] upload.kind = "plain" ->
                           \* requests.post is entered and holds the thread
                           /\ h_files' = h_files \cup {image_path}
                           /\ h_pc' = [h_pc EXCEPT ![r] = "LLM_CALL"]
                           /\ h_running' = r
                           /\ UNCHANGED h_response
    /\ UNCHANGED <<h_allowed, h_upload, h_caller>>
    /\ UNCHANGED <<agent_vars, validation_vars, store_vars>>

\* requests.post returns or raises; execute returns a prediction either
\* way; lines 68-86: validation returns or raises, the file is removed
LLMReturns(r, validation_raises) ==
    /\ h_pc[r] = "LLM_CALL"
    /\ h_running = r
    /\ h_files' = cleanup(h_files, Val(h_path[r]))
    /\ h_pc' = [h_pc EXCEPT ![r] = "DONE"]
    /\ h_response' =
          [h_response EXCEPT ![r] =
              IF validation_raises THEN Some([status |-> 500, at |-> "pipeline"])
              ELSE Some([status |-> 200, at |-> "success"])]
    /\ h_running' = 0
    /\ UNCHANGED <<h_allowed, h_upload, h_path, h_uuid, h_caller>>
    /\ UNCHANGED <<agent_vars, validation_vars, store_vars>>

\* the caller of a request that is under way gives up waiting
Abandon(r) ==
    /\ h_pc[r] \in {"READ", "LLM_CALL"}
    /\ h_caller[r] = "waiting"
    /\ h_caller' = [h_caller EXCEPT ![r] = IF h_pc[r] = "READ" THEN "left_at_READ"
                                           ELSE "left_at_LLM_CALL"]
    /\ UNCHANGED <<h_allowed, h_pc, h_upload, h_running, h_path, h_files, h_uuid, h_response>>
    /\ UNCHANGED <<agent_vars, validation_vars, store_vars>>

\* the server cancels the suspended handler of an abandoned request:
\* CancelledError is raised at line 37 and passes the except of line 81
CancelAtRead(r) ==
    /\ h_pc[r] = "READ"
    /\ h_caller[r] = "left_at_READ"
    /\ h_running = 0
    /\ h_pc' = [h_pc EXCEPT ![r] = "DONE"]
    /\ UNCHANGED <<h_allowed, h_upload, h_running, h_path, h_files, h_uuid, h_response,
                   h_caller>>
    /\ UNCHANGED <<agent_vars, validation_vars, store_vars>>

ApiNext ==
    \/ \E allowed \in AllowedFormatSettings : Configure(allowed)
    \/ \E r \in Requests, upload \in Uploads : Arrive(r, upload)
    \/ \E r \in Requests : Resume(r)
    \/ \E r \in Requests, validation_raises \in BOOLEAN : LLMReturns(r, validation_raises)
    \/ \E r \in Requests : Abandon(r)
    \/ \E r \in Requests : CancelAtRead(r)

(***************************************************************************)
(* Properties of the endpoint                                              *)
(***************************************************************************)

\* C16 as stated: while one request's LLM call is outstanding the invoking
\* task is suspended and the host can start and complete other requests, so
\* a slow LLM call of one request does not delay the others: a request
\* that waits to be resumed gets to its own LLM call or to its end,
\* however long the LLM calls of the other requests take.
C16_OthersNotDelayed ==
    \A r \in Requests : (h_pc[r] = "READ") ~> (h_pc[r] \in {"LLM_CALL", "DONE"})

\* C17: for every request that has written its upload to the scratch
\* folder, the scratch file no longer exists once the request has ended,
\* with a success response, with the error of a pipeline stage, or given
\* up by its caller at the LLM call; two requests never share a scratch
\* file, and a request removes no file but its own.
C17_ScratchFileRemoved ==
    /\ [](\A r \in Requests :
            (h_pc[r] = "DONE" /\ h_path[r] # None) => Val(h_path[r]) \notin h_files)
    /\ [](\A r1, r2 \in Requests :
            (r1 # r2 /\ h_path[r1] # None /\ h_path[r2] # None) => h_path[r1] # h_path[r2])
    /\ [][\A f \in h_files \ h_files' :
            \E r \in Requests : h_pc'[r] # h_pc[r] /\ h_path[r] = Some(f)]_vars

\* one request given up at its LLM call and ended in success, another ended
\* by the error of a pipeline stage; both had written their file
C17_Witness ==
    \E r1, r2 \in Requests :
        /\ h_pc[r1] = "DONE" /\ h_pc[r2] = "DONE"
        /\ h_caller[r1] = "left_at_LLM_CALL"
        /\ h_response[r1] = Some([status |-> 200, at |-> "success"])
        /\ h_response[r2] = Some([status |-> 500, at |-> "pipeline"])
        /\ Val(h_upload[r2]).kind = "plain"
        /\ h_path[r1] # None /\ h_path[r2] # None
        /\ h_files = {}

\* C18: in an invocation of execute without a metadata coordinate the
\* short-circuit path is never taken, exactly one LLM call is attempted and
\* never retried, and once the call has returned or failed the invocation is
\* DONE with the parsed prediction or the fallback prediction; the only
\* paths are START -> METADATA_HIT -> DONE, START -> LLM_CALL -> PARSE_OK ->
\* DONE and START -> LLM_CALL -> FALLBACK -> DONE.
C18_OneCallThreePaths ==
    /\ a_pc = "IDLE" => (a_llm_calls = 0 /\ a_path = <<>>)
    /\ a_pc = "LLM_CALL" => (a_path = <<"START", "LLM_CALL">> /\ a_reply = None)
    /\ a_pc = "DONE" =>
          a_path \in {<<"START", "METADATA_HIT", "DONE">>,
                      <<"START", "LLM_CALL", "PARSE_OK", "DONE">>,
                      <<"START", "LLM_CALL", "FALLBACK", "DONE">>}
    /\ (a_task # None /\ ~TaskHasCoordinate) =>
          /\ a_llm_calls = 1
          /\ a_path[2] = "LLM_CALL"
          /\ (a_reply # None) = (a_pc = "DONE")
          /\ a_pc = "DONE" =>
                /\ a_result # None
                /\ a_path[3] = "PARSE_OK" =>
                      /\ LLMParsed
                      /\ \A k \in DOMAIN ParsedObject \cap NormalizedKeys :
                            Val(a_result)[k] = ParsedObject[k]
                /\ a_path[3] = "FALLBACK" =>
                      /\ LLMFailed
                      /\ Val(a_result) = get_fallback_prediction

\* an invocation without metadata whose single call failed in transport
C18_Witness ==
    /\ a_task # None /\ ~TaskHasCoordinate
    /\ a_pc = "DONE"
    /\ Val(a_reply).kind = "raise"
    /\ a_path = <<"START", "LLM_CALL", "FALLBACK", "DONE">>
    /\ a_llm_calls = 1

\* the extension of the file name names one of the allowed formats
NamesAllowedFormat(filename, allowed) ==
    \E i \in 1..Len(allowed) : Lower(allowed[i]) = Lower(filename[Len(filename)])

RefusedForFormat(r) == h_response[r] = Some([status |-> 500, at |-> "format"])

\* C19: an upload within the size limit whose extension names one of the
\* configured allowed formats (by default JPEG, PNG, JPG, TIFF, so
\* photo.jpg) passes the format check and, once read, goes on to image
\* processing; an upload is refused for its format only when its extension
\* names none of the allowed formats.
C19_AllowlistEnforced ==
    \A r \in Requests :
        h_upload[r] # None =>
            LET upload == Val(h_upload[r])
            IN  /\ (upload.size <= MAX_IMAGE_SIZE
                        /\ NamesAllowedFormat(upload.filename, h_allowed)) =>
                      /\ ~RefusedForFormat(r)
                      /\ (h_pc[r] = "DONE" /\ h_caller[r] # "left_at_READ") =>
                            h_path[r] # None
                /\ RefusedForFormat(r) =>
                      ~NamesAllowedFormat(upload.filename, h_allowed)

(***************************************************************************)
(* Specifications                                                          *)
(***************************************************************************)
\* the state after GeolocationReasoningAgent and ValidationModule are
\* constructed and before any call
Init ==
    /\ a_pc = "IDLE"
    /\ a_task = None
    /\ a_reply = None
    /\ a_result = None
    /\ a_path = <<>>
    /\ a_llm_calls = 0
    /\ v_prediction = None
    /\ v_before = None
    /\ v_op = "none"
    /\ v_arg = None
    /\ v_ret = None
    /\ v_calls = 0
    /\ v_threshold = confidence_threshold
    /\ s_locations = <<>>
    /\ s_features = <<>>
    /\ s_sequence = [locations |-> 0, image_features |-> 0]
    /\ s_index = <<>>
    /\ s_file = None
    /\ s_op = "open"
    /\ s_arg = None
    /\ s_ret = <<"ok", None>>
    /\ h_allowed = DefaultAllowedFormats
    /\ h_pc = [r \in Requests |-> "NEW"]
    /\ h_upload = [r \in Requests |-> None]
    /\ h_running = 0
    /\ h_path = [r \in Requests |-> None]
    /\ h_files = {}
    /\ h_uuid = 0
    /\ h_response = [r \in Requests |-> None]
    /\ h_caller = [r \in Requests |-> "waiting"]

SpecAgent == Init /\ [][AgentNext]_vars

SpecValidation == Init /\ [][ValidationNext]_vars

SpecStore == Init /\ [][StoreNext]_vars

SpecApi == Init /\ [][ApiNext]_vars

\* the event loop resumes a handler that can run, and a handler that runs
\* goes on; nothing says when, or whether, the LLM service answers
SpecApiFair ==
    /\ Init
    /\ [][ApiNext]_vars
    /\ \A r \in Requests : WF_vars(Resume(r))

(***************************************************************************)
(* Properties of the validation module                                     *)
(***************************************************************************)

\* the last call was validate_location_prediction; its arguments, its result
Validated == v_op = "validate"
PredictionBefore == Val(v_before)
LocationBefore == Val(v_before).predicted_location
OriginalConfidence == Get(Val(v_before).predicted_location, "confidence", Rat(1, 2))
Metrics == Val(v_ret).validation_metrics
AdjustedConfidence == Val(v_ret).predicted_location.confidence

\* clamp to [0, 1]
Clamp01(x) == IF RLt(x, RInt(0)) THEN RInt(0) ELSE IF RLt(RInt(1), x) THEN RInt(1) ELSE x

\* original x (0.7 + 0.3 x consistency) x (0.8 + 0.2 x feature) x (0.5 if outlier), clamped
Recombined(original, consistency, feature, outlier) ==
    Clamp01(
        RMul(RMul(original, IF outlier THEN Rat(1, 2) ELSE RInt(1)),
             RMul(RAdd(Rat(7, 10), RMul(consistency, Rat(3, 10))),
                  RAdd(Rat(8, 10), RMul(feature, Rat(2, 10))))))

\* C4 as stated: for every prediction that has no alternative locations the
\* consistency score recorded in validation_metrics and fed into the
\* recombination is 1.0, so the consistency factor is 1.0.
C4_NoAlternativesConsistent ==
    (Validated /\ PredictionBefore.alternative_locations = <<>>) =>
        /\ Metrics.consistency_score = RInt(1)
        /\ AdjustedConfidence =
              Recombined(OriginalConfidence, RInt(1), Metrics.feature_matching_score,
                         Metrics.outlier_detection)

\* C5 as stated: the feature-matching score attached to a validated
\* prediction is 0.5 in every call, with image features or without.
C5_FeatureScoreNeutral ==
    Validated =>
        /\ Metrics.feature_matching_score = Rat(1, 2)
        /\ AdjustedConfidence =
              Recombined(OriginalConfidence, Metrics.consistency_score, Rat(1, 2),
                         Metrics.outlier_detection)

\* the last call was _adjust_confidence on a record holding the three metrics
Adjusted ==
    /\ v_op = "adjust"
    /\ {"consistency_score", "feature_matching_score", "outlier_detection"}
          \subseteq DOMAIN Val(v_arg)[2]

\* C6: _adjust_confidence returns clamp_[0,1](original x (0.7 + 0.3 x
\* consistency_score) x (0.8 + 0.2 x feature_matching_score) x (0.5 if the
\* outlier flag is set, else 1)); hence the confidence of every validated
\* prediction lies in [0, 1], and setting the outlier flag never increases
\* the result.
C6_AdjustConfidence ==
    /\ Adjusted =>
         LET o == Val(v_arg)[1]
             m == Val(v_arg)[2]
         IN  /\ Val(v_ret) = Recombined(o, m.consistency_score, m.feature_matching_score,
                                        m.outlier_detection)
             /\ RLe(RInt(0), Val(v_ret)) /\ RLe(Val(v_ret), RInt(1))
             /\ RLe(adjust_confidence(o, [m EXCEPT !.outlier_detection = TRUE]),
                    adjust_confidence(o, [m EXCEPT !.outlier_detection = FALSE]))
    /\ Validated =>
         /\ AdjustedConfidence =
               Recombined(OriginalConfidence, Metrics.consistency_score,
                          Metrics.feature_matching_score, Metrics.outlier_detection)
         /\ RLe(RInt(0), AdjustedConfidence) /\ RLe(AdjustedConfidence, RInt(1))

\* a confidence above 1 that the outlier penalty brings back under 1
C6_Witness ==
    /\ Adjusted
    /\ Val(v_arg)[1] = Rat(3, 2)
    /\ Val(v_arg)[2].outlier_detection
    /\ Val(v_ret) = Rat(3, 4)

\* the claim's outlier test, on a latitude and a longitude
OutlierByClaim(lat, lon) ==
    \/ Abs(lat) > Deg(90)
    \/ Abs(lon) > Deg(180)
    \/ (-Deg(5) < lat /\ lat < Deg(5) /\ -Deg(170) < lon /\ lon < -Deg(160))

\* C7: the outlier flag recorded by validation is true if and only if
\* |latitude| > 90, or |longitude| > 180, or (-5 < latitude < 5 and
\* -170 < longitude < -160); (91, 0) is flagged whatever the alternatives,
\* features and confidence are, and (0, 0) is not.
C7_OutlierFlag ==
    /\ Validated =>
         /\ Metrics.outlier_detection =
               OutlierByClaim(LocationBefore.latitude, LocationBefore.longitude)
         /\ (LocationBefore.latitude = Deg(91) /\ LocationBefore.longitude = 0)
               => Metrics.outlier_detection
         /\ (LocationBefore.latitude = 0 /\ LocationBefore.longitude = 0)
               => ~Metrics.outlier_detection
    /\ v_op = "is_outlier" =>
         Val(v_ret) = OutlierByClaim(Val(v_arg).latitude, Val(v_arg).longitude)

\* (91, 0) validated with alternatives and with image features
C7_Witness ==
    /\ Validated
    /\ LocationBefore.latitude = Deg(91) /\ LocationBefore.longitude = 0
    /\ Len(PredictionBefore.alternative_locations) = 2
    /\ Val(v_arg) = Some([brightness |-> 128, edges |-> 480])
    /\ Metrics.outlier_detection

\* the last call was cross_validate_with_external_sources
CrossValidated == v_op = "cross_validate"
ExternalSources == Val(v_arg)
CrossResult == Val(v_ret)
BaseConfidence == Get(Val(v_before).predicted_location, "confidence", Rat(1, 2))

\* the distance in km from the primary prediction to source i, None if it
\* cannot be computed
SourceDistance(i) ==
    geodesic(<<LocationBefore.latitude, LocationBefore.longitude>>,
             <<ExternalSources[i].latitude, ExternalSources[i].longitude>>)

\* the sources less than 1 km from the primary prediction, and the others
\* whose distance is computed
Agreeing ==
    {i \in 1..Len(ExternalSources) :
        SourceDistance(i) # None /\ Val(SourceDistance(i)).n < Val(SourceDistance(i)).d}
Differing ==
    {i \in 1..Len(ExternalSources) :
        SourceDistance(i) # None /\ Val(SourceDistance(i)).n >= Val(SourceDistance(i)).d}

\* the sum over a set of sources of their confidences (0.8 for a source without one)
RECURSIVE ConfidenceSum(_)
ConfidenceSum(I) ==
    IF I = {} THEN RInt(0)
    ELSE LET i == CHOOSE x \in I : TRUE
         IN  RAdd(Get(ExternalSources[i], "confidence", Rat(4, 5)), ConfidenceSum(I \ {i}))

MeanAgreeingConfidence ==
    IF Agreeing = {} THEN RInt(0)
    ELSE RMul(ConfidenceSum(Agreeing), Rat(1, Cardinality(Agreeing)))

\* 0.7 x original confidence + 0.3 x score, at most 1
Blend(original, score) ==
    LET b == RAdd(RMul(original, Rat(7, 10)), RMul(score, Rat(3, 10)))
    IN  IF RLt(RInt(1), b) THEN RInt(1) ELSE b

\* every source whose distance is computed is in exactly one of the two lists
Partitioned ==
    /\ Len(CrossResult.external_agreement) = Cardinality(Agreeing)
    /\ Len(CrossResult.discrepancies) = Cardinality(Differing)
    /\ \A i \in Agreeing :
          /\ \E j \in 1..Len(CrossResult.external_agreement) :
                /\ CrossResult.external_agreement[j].distance_km = Val(SourceDistance(i))
                /\ CrossResult.external_agreement[j].source =
                      Get(ExternalSources[i], "source", "unknown")
          /\ \A j \in 1..Len(CrossResult.discrepancies) :
                CrossResult.discrepancies[j].source
                   # Get(ExternalSources[i], "source", "unknown")
    /\ \A i \in Differing :
          /\ \E j \in 1..Len(CrossResult.discrepancies) :
                /\ CrossResult.discrepancies[j].distance_km = Val(SourceDistance(i))
                /\ CrossResult.discrepancies[j].source =
                      Get(ExternalSources[i], "source", "unknown")
          /\ \A j \in 1..Len(CrossResult.external_agreement) :
                CrossResult.external_agreement[j].source
                   # Get(ExternalSources[i], "source", "unknown")

\* C8 as stated: for every prediction and every list of external sources,
\* the empty list included, cross_validation_score is the mean confidence
\* of the sources less than 1 km away (0 if none) and final_confidence is
\* min(1.0, 0.7 x original confidence + 0.3 x cross_validation_score).
C8_CrossValidationBlend ==
    CrossValidated =>
        /\ CrossResult.cross_validation_score = MeanAgreeingConfidence
        /\ CrossResult.final_confidence =
              Blend(BaseConfidence, CrossResult.cross_validation_score)
        /\ Partitioned

\* C8 amended: for a list of external sources that is not empty,
\* cross_validation_score is the mean confidence of the sources less than
\* 1 km away (0.8 for a source without a confidence; 0 if none agree), at
\* most 1.0, final_confidence is min(1.0, 0.7 x original confidence + 0.3 x
\* cross_validation_score) (0.5 for a prediction without a confidence), and
\* every source whose distance is computed is in exactly one of the two
\* lists; for the empty list the score is 0, both lists are empty and
\* final_confidence is the original confidence as it is.
C8_CrossValidationBlendNonEmpty ==
    CrossValidated =>
        /\ ExternalSources # <<>> =>
              /\ CrossResult.cross_validation_score =
                    (IF RLt(RInt(1), MeanAgreeingConfidence)
                     THEN RInt(1) ELSE MeanAgreeingConfidence)
              /\ CrossResult.final_confidence =
                    Blend(BaseConfidence, CrossResult.cross_validation_score)
        /\ ExternalSources = <<>> =>
              /\ CrossResult.cross_validation_score = RInt(0)
              /\ CrossResult.final_confidence = BaseConfidence
        /\ Partitioned

\* two agreeing sources, one of them without a confidence: mean 0.85
C8_Witness ==
    /\ CrossValidated
    /\ Len(ExternalSources) = 2
    /\ Cardinality(Agreeing) = 2
    /\ CrossResult.cross_validation_score = Rat(17, 20)
    /\ BaseConfidence = Rat(17, 20)
    /\ CrossResult.final_confidence = Rat(17, 20)

\* a dict without its key k
Without(d, k) == [x \in DOMAIN d \ {k} |-> d[x]]

\* C9: validate_location_prediction changes nothing of the prediction
\* except the confidence field of the primary location; and
\* cross_validate_with_external_sources changes nothing of the prediction
\* nor of the module, so it does not feed into the adjusted confidence.
C9_Frame ==
    [][/\ (v_op' = "validate" /\ v_calls' = v_calls + 1) =>
            /\ DOMAIN Val(v_prediction') = DOMAIN Val(v_prediction)
            /\ Val(v_prediction').reasoning = Val(v_prediction).reasoning
            /\ Val(v_prediction').alternative_locations
                  = Val(v_prediction).alternative_locations
            /\ Without(Val(v_prediction').predicted_location, "confidence")
                  = Without(Val(v_prediction).predicted_location, "confidence")
            /\ Val(v_ret').reasoning = Val(v_prediction).reasoning
            /\ Val(v_ret').alternative_locations = Val(v_prediction).alternative_locations
            /\ Without(Val(v_ret').predicted_location, "confidence")
                  = Without(Val(v_prediction).predicted_location, "confidence")
       /\ (v_op' = "cross_validate" /\ v_calls' = v_calls + 1) =>
            /\ v_prediction' = v_prediction
            /\ v_threshold' = v_threshold
            /\ \A f \in ImageFeatures :
                  validate_location_prediction(Val(v_prediction'), f)
                     = validate_location_prediction(Val(v_prediction), f)
      ]_vars

\* a second call on a prediction with two alternatives, a validation that
\* changed its confidence
C9_Witness ==
    /\ Validated
    /\ v_calls = 2
    /\ Len(PredictionBefore.alternative_locations) = 2
    /\ Val(v_prediction).predicted_location.confidence
          # OriginalConfidence
    /\ OriginalConfidence = Rat(17, 20)

\* C20: validate_location_prediction works on a copy: after the call the
\* prediction the caller passed in still holds its original confidence
\* while the result holds the adjusted one; so validating the same
\* prediction twice, with the same image features, yields the same adjusted
\* confidence both times.
C20_ValidatesCopy ==
    [][(v_op' = "validate" /\ v_calls' = v_calls + 1) =>
          /\ "confidence" \in DOMAIN Val(v_prediction).predicted_location =>
                Val(v_prediction').predicted_location.confidence
                   = Val(v_prediction).predicted_location.confidence
          /\ (v_op = "validate" /\ v_arg' = v_arg) =>
                Val(v_ret').predicted_location.confidence
                   = Val(v_ret).predicted_location.confidence
      ]_vars

=============================================================================
